---- MODULE Spec2Model ----
(***************************************************************************)
(* Model of nyx's menu cursor (nyx/menu/menu.py): a MenuCursor navigating   *)
(* a tree of menu items with handle_key.                                    *)
(*                                                                          *)
(* The tree is a set of nodes 1..Len(parent); node 1 is the root.  The      *)
(* children of a node are kept in ascending order of their number, which    *)
(* is their sibling order.  The item classes (nyx/menu/item.py) and the key *)
(* class are modelled from the specification's data model.                  *)
(***************************************************************************)
EXTENDS Integers, Sequences, FiniteSets, TLC

\* Largest number of nodes (root included) of a menu tree.
MaxNodes == 6

\* Largest number of rows, and longest label part, of the panels whose labels
\* are drawn from every combination.
MaxRows == 2
MaxPart == 2

VARIABLES
  parent,         \* parent[i]: the parent of node i, 0 for the root
  kind,           \* kind[i]: "Submenu" or "Action"
  selection,      \* MenuCursor._selection
  is_done,        \* MenuCursor._is_done
  key,            \* the key of the last handle_key call, "none" before the first
  old_selection,  \* _selection when the last handle_key call started
  old_done,       \* _is_done when the last handle_key call started
  raised,         \* whether the last handle_key call raised an exception
  invoked,        \* how many times the last handle_key call invoked select()
  returned,       \* what that select() returned
  run_len,        \* length of the current run of UP keys or of DOWN keys
  run_start,      \* _selection when that run started
  label,          \* label[i]: the 3-part label of node i (get_label())
  pc,             \* where show_menu is; "idle" when the cursor is used alone
  control,        \* whether show_menu's local `control` is bound
  bar_held,       \* whether the menu bar's popup window is held
  held,           \* levels of the panel windows held, innermost last
  call,           \* arguments of the current _draw_submenu call
  bar,            \* what the last render pass drew on the menu bar
  panels,         \* the panels the last render pass drew, outermost first
  alloc_failed,   \* level whose panel failed to allocate in that pass, or 0
  shown,          \* the selection that pass rendered
  iter,           \* what the current loop iteration did so far
  msg,            \* the host's message line: "unset", "menu" or "default"
  redrawn,        \* whether control.redraw() was called since the last key
  failure         \* the exception that left show_menu, "none" otherwise

cursorVars == <<selection, is_done, key, old_selection, old_done,
                raised, invoked, returned, run_len, run_start>>

driverVars == <<pc, control, bar_held, held, call, bar, panels, alloc_failed,
                shown, iter, msg, redrawn, failure>>

vars == <<parent, kind, label, cursorVars, driverVars>>

----------------------------------------------------------------------------
(* Sequences indexed from 0, as the lists of the source are. *)

At(s, i) == s[i + 1]

RECURSIVE SortedSeq(_)
SortedSeq(S) ==
  IF S = {} THEN <<>>
  ELSE LET m == CHOOSE x \in S : \A y \in S : x <= y
       IN  <<m>> \o SortedSeq(S \ {m})

IndexOf(s, x) == (CHOOSE i \in 1..Len(s) : s[i] = x) - 1

----------------------------------------------------------------------------
(* The menu items. *)

Nodes == DOMAIN parent

is_submenu(node) == kind[node] = "Submenu"

get_parent(node) == parent[node]

get_children(node) == SortedSeq({i \in Nodes : parent[i] = node})

is_empty(node) == Len(get_children(node)) = 0

RECURSIVE get_hierarchy(_)
get_hierarchy(node) ==
  IF get_parent(node) = 0 THEN <<node>>
  ELSE Append(get_hierarchy(get_parent(node)), node)

get_sibling(node, offset) ==
  IF get_parent(node) = 0 THEN node
  ELSE LET my_siblings == get_children(get_parent(node))
           my_index == IndexOf(my_siblings, node)
       IN  At(my_siblings, (my_index + offset) % Len(my_siblings))

next(node) == get_sibling(node, 1)

prev(node) == get_sibling(node, -1)

----------------------------------------------------------------------------
(* The trees make_menu can hand to the cursor: the root and its children    *)
(* are submenus, only submenus have children, and the first top-level       *)
(* submenu has a first child (the initial selection).  The nodes are        *)
(* numbered level by level, so every ordered tree appears once.             *)

ParentMaps(n) ==
  {p \in [1..n -> 0..(n - 1)] :
     /\ p[1] = 0
     /\ \A i \in 2..n : p[i] >= 1 /\ p[i] < i
     /\ \A i \in 2..(n - 1) : p[i] <= p[i + 1]}

KindMaps(n, p) ==
  {k \in [1..n -> {"Submenu", "Action"}] :
     /\ k[1] = "Submenu"
     /\ \A i \in 2..n : k[p[i]] = "Submenu"
     /\ \A i \in 2..n : p[i] = 1 => k[i] = "Submenu"}

TreesOf(n) ==
  UNION {{<<p, k>> : k \in KindMaps(n, p)} :
           p \in {q \in ParentMaps(n) : \E i \in 3..n : q[i] = 2}}

Trees == UNION {TreesOf(n) : n \in 3..MaxNodes}

----------------------------------------------------------------------------
(* Labels: 3-part tuples of strings (prefix, middle, suffix).               *)

RECURSIVE Repeat(_, _)
Repeat(c, n) == IF n <= 0 THEN "" ELSE c \o Repeat(c, n - 1)

\* the label a node has when only the shape of the tree matters: its middle
\* part is as long as the node's number, a submenu is marked by its suffix
DefaultLabel(i) == <<"", Repeat("n", i), IF kind[i] = "Submenu" THEN " >" ELSE "">>

----------------------------------------------------------------------------
(* The keys.  is_selection and match are the two tests handle_key makes.    *)

Keys == {"enter", "up", "down", "left", "right", "esc", "m", "x"}

is_selection(k) == k = "enter"

match(k, names) == k \in names

----------------------------------------------------------------------------
(* What a call of handle_key leaves behind. *)

Result(sel, done, exc, calls) ==
  [selection |-> sel, is_done |-> done, raised |-> exc, invoked |-> calls]

\* s[i] evaluated but never assigned to self._selection
subscript_not_assigned(s, i, sel, done) ==
  IF i < Len(s) THEN Result(sel, done, FALSE, 0)
  ELSE Result(sel, done, TRUE, 0)

\* self._selection = s[i]: an IndexError leaves the cursor as it was
subscript(s, i, sel, done) ==
  IF i < Len(s) THEN Result(At(s, i), done, FALSE, 0)
  ELSE Result(sel, done, TRUE, 0)

\* on_select with the effect's return value ignored: any action closes the menu
on_select_always_done(sel, done, r) ==
  IF is_submenu(sel)
  THEN IF ~is_empty(sel)
       THEN subscript(get_children(sel), 0, sel, done)
       ELSE Result(sel, done, FALSE, 0)
  ELSE Result(sel, TRUE, FALSE, 1)

\* on_select descending to get_children()[1]
on_select_second_child(sel, done, r) ==
  IF is_submenu(sel)
  THEN IF ~is_empty(sel)
       THEN subscript(get_children(sel), 1, sel, done)
       ELSE Result(sel, done, FALSE, 0)
  ELSE Result(sel, r, FALSE, 1)

on_select(sel, done, r) ==
  IF is_submenu(sel)
  THEN IF ~is_empty(sel)
       THEN subscript(get_children(sel), 0, sel, done)
       ELSE Result(sel, done, FALSE, 0)
  ELSE Result(sel, r, FALSE, 1)

on_up(sel, done) == Result(prev(sel), done, FALSE, 0)

\* on_down opening a selected submenu, as RIGHT does
on_down_descends(sel, done) ==
  IF is_submenu(sel) /\ ~is_empty(sel)
  THEN subscript(get_children(sel), 0, sel, done)
  ELSE Result(next(sel), done, FALSE, 0)

on_down(sel, done) == Result(next(sel), done, FALSE, 0)

\* on_left cycling to the next main submenu, as RIGHT does
on_left_uses_next(sel, done) ==
  LET selection_hierarchy == get_hierarchy(sel)
  IN  IF Len(selection_hierarchy) <= 3
      THEN IF 1 < Len(selection_hierarchy)
           THEN LET prev_submenu == next(At(selection_hierarchy, 1))
                IN  subscript(get_children(prev_submenu), 0, sel, done)
           ELSE Result(sel, done, TRUE, 0)
      ELSE Result(get_parent(sel), done, FALSE, 0)

\* on_left with the threshold on the depth, len(hierarchy) - 1 <= 3
on_left_depth_threshold(sel, done) ==
  LET selection_hierarchy == get_hierarchy(sel)
  IN  IF Len(selection_hierarchy) - 1 <= 3
      THEN IF 1 < Len(selection_hierarchy)
           THEN LET prev_submenu == prev(At(selection_hierarchy, 1))
                IN  subscript(get_children(prev_submenu), 0, sel, done)
           ELSE Result(sel, done, TRUE, 0)
      ELSE Result(get_parent(sel), done, FALSE, 0)

\* on_left closing every nested submenu: back to selection_hierarchy[2]
on_left_first_level(sel, done) ==
  LET selection_hierarchy == get_hierarchy(sel)
  IN  IF Len(selection_hierarchy) <= 3
      THEN IF 1 < Len(selection_hierarchy)
           THEN LET prev_submenu == prev(At(selection_hierarchy, 1))
                IN  subscript(get_children(prev_submenu), 0, sel, done)
           ELSE Result(sel, done, TRUE, 0)
      ELSE Result(At(selection_hierarchy, 2), done, FALSE, 0)

\* on_left climbing from the first level too: threshold len(hierarchy) <= 2
on_left_climbs_to_top(sel, done) ==
  LET selection_hierarchy == get_hierarchy(sel)
  IN  IF Len(selection_hierarchy) <= 2
      THEN IF 1 < Len(selection_hierarchy)
           THEN LET prev_submenu == prev(At(selection_hierarchy, 1))
                IN  subscript(get_children(prev_submenu), 0, sel, done)
           ELSE Result(sel, done, TRUE, 0)
      ELSE Result(get_parent(sel), done, FALSE, 0)

on_left(sel, done) ==
  LET selection_hierarchy == get_hierarchy(sel)
  IN  IF Len(selection_hierarchy) <= 3
      THEN IF 1 < Len(selection_hierarchy)
           THEN LET prev_submenu == prev(At(selection_hierarchy, 1))
                IN  subscript(get_children(prev_submenu), 0, sel, done)
           ELSE Result(sel, done, TRUE, 0)
      ELSE Result(get_parent(sel), done, FALSE, 0)

\* on_right descending to the last child of a submenu
on_right_last_child(sel, done) ==
  LET selection_hierarchy == get_hierarchy(sel)
  IN  IF is_submenu(sel)
      THEN IF ~is_empty(sel)
           THEN subscript(get_children(sel), Len(get_children(sel)) - 1, sel, done)
           ELSE Result(sel, done, FALSE, 0)
      ELSE IF 1 < Len(selection_hierarchy)
           THEN LET next_submenu == next(At(selection_hierarchy, 1))
                IN  subscript(get_children(next_submenu), 0, sel, done)
           ELSE Result(sel, done, TRUE, 0)

\* on_right made the mirror image of LEFT: a nested action climbs to its parent
on_right_climbs(sel, done) ==
  LET selection_hierarchy == get_hierarchy(sel)
  IN  IF is_submenu(sel)
      THEN IF ~is_empty(sel)
           THEN subscript(get_children(sel), 0, sel, done)
           ELSE Result(sel, done, FALSE, 0)
      ELSE IF Len(selection_hierarchy) > 3
           THEN Result(get_parent(sel), done, FALSE, 0)
           ELSE IF 1 < Len(selection_hierarchy)
                THEN LET next_submenu == next(At(selection_hierarchy, 1))
                     IN  subscript(get_children(next_submenu), 0, sel, done)
                ELSE Result(sel, done, TRUE, 0)

on_right(sel, done) ==
  LET selection_hierarchy == get_hierarchy(sel)
  IN  IF is_submenu(sel)
      THEN IF ~is_empty(sel)
           THEN subscript(get_children(sel), 0, sel, done)
           ELSE Result(sel, done, FALSE, 0)
      ELSE IF 1 < Len(selection_hierarchy)
           THEN LET next_submenu == next(At(selection_hierarchy, 1))
                IN  subscript(get_children(next_submenu), 0, sel, done)
           ELSE Result(sel, done, TRUE, 0)

\* on_close that only matches the key and sets nothing
on_close_unset(sel, done) == Result(sel, done, FALSE, 0)

on_close(sel, done) == Result(sel, TRUE, FALSE, 0)

\* handle_key whose last branch is a plain else: any other key closes the menu
handle_key_else_close(sel, done, k, r) ==
  IF is_selection(k) THEN on_select(sel, done, r)
  ELSE IF match(k, {"up"}) THEN on_up(sel, done)
  ELSE IF match(k, {"down"}) THEN on_down(sel, done)
  ELSE IF match(k, {"left"}) THEN on_left(sel, done)
  ELSE IF match(k, {"right"}) THEN on_right(sel, done)
  ELSE on_close(sel, done)

\* r is what the selected action's effect returns if this call invokes it
handle_key(sel, done, k, r) ==
  IF is_selection(k) THEN on_select(sel, done, r)
  ELSE IF match(k, {"up"}) THEN on_up(sel, done)
  ELSE IF match(k, {"down"}) THEN on_down(sel, done)
  ELSE IF match(k, {"left"}) THEN on_left(sel, done)
  ELSE IF match(k, {"right"}) THEN on_right(sel, done)
  ELSE IF match(k, {"esc", "m"}) THEN on_close(sel, done)
  ELSE Result(sel, done, FALSE, 0)

----------------------------------------------------------------------------

\* MenuCursor(menu.get_children()[0].get_children()[0])
InitialSelection == At(get_children(At(get_children(1), 0)), 0)

\* the cursor as MenuCursor.__init__ leaves it
CursorInit ==
  /\ selection = InitialSelection
  /\ is_done = FALSE
  /\ key = "none"
  /\ old_selection = selection
  /\ old_done = FALSE
  /\ raised = FALSE
  /\ invoked = 0
  /\ returned = FALSE
  /\ run_len = 0
  /\ run_start = selection

\* show_menu not running: nothing drawn, nothing held
DriverIdle(at) ==
  /\ pc = at
  /\ control = FALSE
  /\ bar_held = FALSE
  /\ held = <<>>
  /\ call = [level |-> 0, top |-> 0, left |-> 0]
  /\ bar = <<>>
  /\ panels = <<>>
  /\ alloc_failed = 0
  /\ shown = 0
  /\ iter = [rendered |-> FALSE, keys |-> 0, handled |-> 0]
  /\ msg = "unset"
  /\ redrawn = FALSE
  /\ failure = "none"

Init ==
  /\ \E t \in Trees : parent = t[1] /\ kind = t[2]
  /\ label = [i \in Nodes |-> DefaultLabel(i)]
  /\ CursorInit
  /\ DriverIdle("idle")

\* handle_key acting on the cursor
CursorStep(k, r) ==
  LET out == handle_key(selection, is_done, k, r)
  IN  /\ selection' = out.selection
      /\ is_done' = out.is_done
      /\ raised' = out.raised
      /\ invoked' = out.invoked
      /\ returned' = (out.invoked > 0 /\ r)
      /\ key' = k
      /\ old_selection' = selection
      /\ old_done' = is_done
      /\ run_len' = IF k \notin {"up", "down"} THEN 0
                    ELSE IF k # key THEN 1
                    ELSE IF run_len < Len(parent) THEN run_len + 1
                    ELSE run_len
      /\ run_start' = IF k \notin {"up", "down"} THEN out.selection
                      ELSE IF k # key THEN selection
                      ELSE run_start

HandleKey(k, r) ==
  /\ CursorStep(k, r)
  /\ UNCHANGED <<parent, kind, label, driverVars>>

Next == \E k \in Keys, r \in BOOLEAN : HandleKey(k, r)

Spec == Init /\ [][Next]_vars

----------------------------------------------------------------------------
(* Rendering: the menu bar and _draw_submenu's panel for one level.         *)

Max(S) == CHOOSE x \in S : \A y \in S : y <= x

\* '%-<w>s' % s: pads s with spaces on the right up to width w, never cuts it
ljust(s, w) == s \o Repeat(" ", w - Len(s))

prefix_col_size(all_label_sets) ==
  Max({Len(all_label_sets[j][1]) : j \in 1..Len(all_label_sets)})

\* middle_col_size measuring entry[0], the prefix, once more
middle_col_size_of_prefix(all_label_sets) ==
  Max({Len(all_label_sets[j][1]) : j \in 1..Len(all_label_sets)})

middle_col_size(all_label_sets) ==
  Max({Len(all_label_sets[j][2]) : j \in 1..Len(all_label_sets)})

suffix_col_size(all_label_sets) ==
  Max({Len(all_label_sets[j][3]) : j \in 1..Len(all_label_sets)})

\* label_format % entry, with label_format = ' %-<p>s%-<m>s%-<s>s '
label_format(sizes, entry) ==
  " " \o ljust(entry[1], sizes[1]) \o ljust(entry[2], sizes[2])
      \o ljust(entry[3], sizes[3]) \o " "

menu_width(sizes) == Len(label_format(sizes, <<"", "", "">>))

\* nothing_to_display with the comparison off by one
nothing_to_display_early(level) == Len(get_hierarchy(selection)) <= level + 2

\* _draw_submenu returns at once when no submenu is open at this level
nothing_to_display(level) == Len(get_hierarchy(selection)) < level + 2

\* what _draw_submenu(cursor, level, top, left) requests and writes when the
\* hierarchy is deep enough: one row for each child of hierarchy[level]
draw_submenu(level, top, left) ==
  LET selection_hierarchy == get_hierarchy(selection)
      submenu == At(selection_hierarchy, level)
      sel == At(selection_hierarchy, level + 1)
      children == get_children(submenu)
      all_label_sets == [j \in 1..Len(children) |-> label[children[j]]]
      sizes == <<prefix_col_size(all_label_sets), middle_col_size(all_label_sets),
                 suffix_col_size(all_label_sets)>>
  IN  [level |-> level, top |-> top, left |-> left,
       height |-> Len(children), width |-> menu_width(sizes), sizes |-> sizes,
       rows |-> [j \in 1..Len(children) |->
                   [item |-> children[j], draw_top |-> j - 1,
                    text |-> label_format(sizes, label[children[j]]),
                    bold |-> children[j] = sel]]]

\* selection_top never set in the loop over the rows
selection_top_unset(panel) == 0

\* selection_top after the loop over the rows: the row of the selection, else 0
selection_top(panel) ==
  IF \E j \in 1..Len(panel.rows) : panel.rows[j].bold
  THEN Max({panel.rows[j].draw_top : j \in {i \in 1..Len(panel.rows) : panel.rows[i].bold}})
  ELSE 0

\* the labels of the menu bar from draw_left on, one entry for each item
RECURSIVE draw_bar(_, _, _)
draw_bar(items, draw_left, active) ==
  IF items = <<>> THEN <<>>
  ELSE LET top_level_item == Head(items)
           draw_label == " " \o label[top_level_item][2] \o " "
       IN  <<[item |-> top_level_item, left |-> draw_left, text |-> draw_label,
              underline |-> (top_level_item = active)]>>
             \o draw_bar(Tail(items), draw_left + Len(draw_label) + 1, active)

\* selection_left after the loop over the top-level items
selection_left(entries) ==
  IF \E j \in 1..Len(entries) : entries[j].underline
  THEN Max({entries[j].left : j \in {i \in 1..Len(entries) : entries[i].underline}})
  ELSE 0

----------------------------------------------------------------------------
(* show_menu: the driver loop.  popup_window either yields a window of the  *)
(* geometry asked for or yields none; leaving its `with` block releases it. *)

NewIteration == [rendered |-> FALSE, keys |-> 0, handled |-> 0]

\* a loop that never looks at the cursor
loop_condition_always == TRUE

\* while not cursor.is_done()
loop_condition == ~is_done

\* with popup_window(1, ...) yields a popup: the controller, the menu and the
\* cursor are set up
BarAcquired ==
  /\ pc = "start"
  /\ pc' = "loop"
  /\ bar_held' = TRUE
  /\ control' = TRUE
  /\ UNCHANGED <<parent, kind, label, cursorVars, held, call, bar, panels,
                 alloc_failed, shown, iter, msg, redrawn, failure>>

\* with popup_window(1, ...) yields no popup: the body is skipped
BarRefused ==
  /\ pc = "start"
  /\ pc' = "finish"
  /\ UNCHANGED <<parent, kind, label, cursorVars, control, bar_held, held, call,
                 bar, panels, alloc_failed, shown, iter, msg, redrawn,
                 failure>>

\* an iteration starts: the message, the menu bar, then _draw_submenu(cursor, 1, 1, selection_left)
LoopEnter ==
  /\ pc = "loop"
  /\ loop_condition
  /\ LET selection_hierarchy == get_hierarchy(selection)
         entries == draw_bar(get_children(1), 0, At(selection_hierarchy, 1))
     IN  /\ bar' = entries
         /\ call' = [level |-> 1, top |-> 1, left |-> selection_left(entries)]
  /\ msg' = "menu"
  /\ shown' = selection
  /\ panels' = <<>>
  /\ alloc_failed' = 0
  /\ iter' = NewIteration
  /\ pc' = "draw"
  /\ UNCHANGED <<parent, kind, label, cursorVars, control, bar_held, held,
                 redrawn, failure>>

\* the loop ends: the `with` block is left and the bar's window released
LoopExit ==
  /\ pc = "loop"
  /\ ~loop_condition
  /\ bar_held' = FALSE
  /\ pc' = "finish"
  /\ UNCHANGED <<parent, kind, label, cursorVars, control, held, call, bar,
                 panels, alloc_failed, shown, iter, msg, redrawn, failure>>

\* _draw_submenu: nothing to display at this level
DrawStop ==
  /\ pc = "draw"
  /\ nothing_to_display(call.level)
  /\ pc' = "unwind"
  /\ UNCHANGED <<parent, kind, label, cursorVars, control, bar_held, held, call,
                 bar, panels, alloc_failed, shown, iter, msg, redrawn,
                 failure>>

\* _draw_submenu: the panel's window is acquired, its rows are written, and
\* the next level is called
DrawPanel ==
  /\ pc = "draw"
  /\ ~nothing_to_display(call.level)
  /\ LET panel == draw_submenu(call.level, call.top, call.left)
     IN  /\ panels' = Append(panels, panel)
         /\ call' = [level |-> call.level + 1,
                     top |-> call.top + selection_top(panel),
                     left |-> call.left + panel.width]
  /\ held' = Append(held, call.level)
  /\ pc' = "draw"
  /\ UNCHANGED <<parent, kind, label, cursorVars, control, bar_held, bar,
                 alloc_failed, shown, iter, msg, redrawn, failure>>

\* DrawRefused that goes on to the next level without a window
DrawRefused_goes_on ==
  /\ pc = "draw"
  /\ ~nothing_to_display(call.level)
  /\ alloc_failed' = call.level
  /\ LET panel == draw_submenu(call.level, call.top, call.left)
     IN  call' = [level |-> call.level + 1,
                  top |-> call.top + selection_top(panel),
                  left |-> call.left + panel.width]
  /\ pc' = "draw"
  /\ UNCHANGED <<parent, kind, label, cursorVars, control, bar_held, held,
                 bar, panels, shown, iter, msg, redrawn, failure>>

\* _draw_submenu: popup_window yields no popup, the call returns
DrawRefused ==
  /\ pc = "draw"
  /\ ~nothing_to_display(call.level)
  /\ alloc_failed' = call.level
  /\ pc' = "unwind"
  /\ UNCHANGED <<parent, kind, label, cursorVars, control, bar_held, held, call,
                 bar, panels, shown, iter, msg, redrawn, failure>>

\* a _draw_submenu call returns to the level that called it: its `with` block
\* is left and the panel's window released
Release ==
  /\ pc = "unwind"
  /\ held # <<>>
  /\ held' = SubSeq(held, 1, Len(held) - 1)
  /\ UNCHANGED <<parent, kind, label, cursorVars, pc, control, bar_held, call,
                 bar, panels, alloc_failed, shown, iter, msg, redrawn,
                 failure>>

\* RenderDone when panel windows are not released on leaving _draw_submenu
RenderDone_leaking ==
  /\ pc = "unwind"
  /\ iter' = [iter EXCEPT !.rendered = TRUE]
  /\ pc' = "key"
  /\ UNCHANGED <<parent, kind, label, cursorVars, control, bar_held, held, call,
                 bar, panels, alloc_failed, shown, msg, redrawn, failure>>

\* the outermost _draw_submenu call has returned: popup.win.refresh()
RenderDone ==
  /\ pc = "unwind"
  /\ held = <<>>
  /\ iter' = [iter EXCEPT !.rendered = TRUE]
  /\ pc' = "key"
  /\ UNCHANGED <<parent, kind, label, cursorVars, control, bar_held, held, call,
                 bar, panels, alloc_failed, shown, msg, redrawn, failure>>

\* cursor.handle_key(control.key_input()): one key is read and handled; an
\* exception leaves show_menu through its `with` block
ReadKey(k, r) ==
  /\ pc = "key"
  /\ LET out == handle_key(selection, is_done, k, r)
     IN  /\ selection' = out.selection
         /\ is_done' = out.is_done
         /\ raised' = out.raised
         /\ invoked' = out.invoked
         /\ returned' = (out.invoked > 0 /\ r)
         /\ key' = k
  /\ UNCHANGED <<old_selection, old_done, run_len, run_start>>
  /\ iter' = [iter EXCEPT !.keys = @ + 1, !.handled = @ + 1]
  /\ redrawn' = FALSE
  /\ IF handle_key(selection, is_done, k, r).raised
     THEN /\ pc' = "raised"
          /\ failure' = "IndexError"
          /\ bar_held' = FALSE
     ELSE /\ pc' = "after_key"
          /\ UNCHANGED <<failure, bar_held>>
  /\ UNCHANGED <<parent, kind, label, control, held, call, bar, panels,
                 alloc_failed, shown, msg>>

\* AfterKey redrawing the host's interface after every key
AfterKey_always_redraws ==
  /\ pc = "after_key"
  /\ redrawn' = TRUE
  /\ pc' = "loop"
  /\ UNCHANGED <<parent, kind, label, cursorVars, control, bar_held, held, call,
                 bar, panels, alloc_failed, shown, iter, msg, failure>>

\* if not cursor.is_done(): control.redraw()
AfterKey ==
  /\ pc = "after_key"
  /\ redrawn' = ~is_done
  /\ pc' = "loop"
  /\ UNCHANGED <<parent, kind, label, cursorVars, control, bar_held, held, call,
                 bar, panels, alloc_failed, shown, iter, msg, failure>>

\* control.set_msg() after the `with` block; `control` is a local of show_menu
\* that only the body of `if popup:` assigns
Finish ==
  /\ pc = "finish"
  /\ IF control
     THEN /\ msg' = "default"
          /\ pc' = "returned"
          /\ UNCHANGED failure
     ELSE /\ failure' = "UnboundLocalError"
          /\ pc' = "raised"
          /\ UNCHANGED msg
  /\ UNCHANGED <<parent, kind, label, cursorVars, control, bar_held, held, call,
                 bar, panels, alloc_failed, shown, iter, redrawn>>

DriverInit ==
  /\ \E t \in Trees : parent = t[1] /\ kind = t[2]
  /\ label = [i \in Nodes |-> DefaultLabel(i)]
  /\ CursorInit
  /\ DriverIdle("start")

DriverNext ==
  \/ BarAcquired
  \/ BarRefused
  \/ LoopEnter
  \/ LoopExit
  \/ DrawStop
  \/ DrawPanel
  \/ DrawRefused
  \/ Release
  \/ RenderDone
  \/ \E k \in Keys, r \in BOOLEAN : ReadKey(k, r)
  \/ AfterKey
  \/ Finish

DriverSpec == DriverInit /\ [][DriverNext]_vars

----------------------------------------------------------------------------
(* The first render pass of a menu with one top-level submenu, whose        *)
(* children carry every combination of label parts up to the bounds.        *)

LabelParts == {Repeat("a", n) : n \in 0..MaxPart}

LabelSets == LabelParts \X LabelParts \X LabelParts

ExampleLabels == <<<<"a", "bb", "c">>, <<"aaa", "b", "cc">>>>

ChildLabels == UNION {[1..n -> LabelSets] : n \in 1..MaxRows} \cup {ExampleLabels}

FormatInit ==
  /\ \E labels \in ChildLabels :
        /\ parent = [i \in 1..(Len(labels) + 2) |-> IF i <= 2 THEN i - 1 ELSE 2]
        /\ kind = [i \in 1..(Len(labels) + 2) |->
                     IF i <= 2 THEN "Submenu" ELSE "Action"]
        /\ label = [i \in 1..(Len(labels) + 2) |->
                      IF i <= 2 THEN DefaultLabel(i) ELSE labels[i - 2]]
  /\ CursorInit
  /\ DriverIdle("start")

FormatNext ==
  \/ BarAcquired
  \/ LoopEnter
  \/ DrawPanel
  \/ DrawStop

FormatSpec == FormatInit /\ [][FormatNext]_vars

----------------------------------------------------------------------------
(* Vocabulary of the properties. *)

\* the hierarchy of the selection the last call started from
OldHierarchy == get_hierarchy(old_selection)

\* its top-level ancestor, hierarchy[1]
OldTop == At(OldHierarchy, 1)

FirstChild(node) == At(get_children(node), 0)

\* every submenu has at least one child
WellFormed == \A i \in Nodes : is_submenu(i) => ~is_empty(i)

\* another child of the same parent
IsSiblingOf(a, b) == a # b /\ get_parent(a) = get_parent(b)

----------------------------------------------------------------------------
\* C1: from every active state (any selection, any depth) handle_key with the
\* close key ('esc' or 'm') yields done = true and leaves the selection
\* unchanged.
C1_CloseTerminates ==
  (key \in {"esc", "m"} /\ ~old_done) =>
     /\ is_done
     /\ selection = old_selection
     /\ ~raised
     /\ invoked = 0

\* a close key pressed at a selection nested below a nested submenu
C1_Witness ==
  /\ key = "m"
  /\ ~old_done
  /\ is_done
  /\ Len(OldHierarchy) >= 4

\* C2: SELECT on an Action invokes its select() exactly once and sets done to
\* the returned boolean; the selection is unchanged.
C2_ActionSelect ==
  (is_selection(key) /\ ~is_submenu(old_selection)) =>
     /\ invoked = 1
     /\ is_done = returned
     /\ selection = old_selection
     /\ ~raised

\* SELECT on an Action whose effect returned false: the menu stays open
C2_Witness ==
  /\ is_selection(key)
  /\ ~is_submenu(old_selection)
  /\ invoked = 1
  /\ ~returned
  /\ ~is_done

\* C3: on a Submenu, SELECT and RIGHT behave identically: with children the new
\* selection is children[0], without children the selection is unchanged; done
\* is unchanged and no effect is invoked.
C3_SubmenuDescent ==
  /\ (key \in {"enter", "right"} /\ is_submenu(old_selection)) =>
        /\ selection = IF is_empty(old_selection) THEN old_selection
                       ELSE FirstChild(old_selection)
        /\ is_done = old_done
        /\ invoked = 0
        /\ ~raised
  /\ is_submenu(selection) =>
        \A r \in BOOLEAN :
           handle_key(selection, is_done, "enter", r)
             = handle_key(selection, is_done, "right", r)

\* RIGHT on a submenu with two children has moved to the first of them
C3_Witness ==
  /\ key = "right"
  /\ is_submenu(old_selection)
  /\ Len(get_children(old_selection)) >= 2
  /\ selection = FirstChild(old_selection)

\* C4: in a submenu with k children, k consecutive DOWN keys (and k consecutive
\* UP keys) return the selection to where the run started; every selection on
\* the way is a child of the same parent, done does not change, and with a
\* single child UP and DOWN leave the selection unchanged.
C4_CyclicSiblings ==
  key \in {"up", "down"} =>
     LET siblings == get_children(get_parent(run_start))
     IN  /\ get_parent(selection) = get_parent(run_start)
         /\ is_done = old_done
         /\ invoked = 0
         /\ ~raised
         /\ run_len = Len(siblings) => selection = run_start
         /\ Len(siblings) = 1 => selection = old_selection

\* three DOWN keys among three children are back at the start, the menu open
C4_Witness ==
  /\ key = "down"
  /\ run_len = 3
  /\ Len(get_children(get_parent(run_start))) = 3
  /\ selection = run_start
  /\ selection # old_selection
  /\ ~is_done

\* C5: from an Action that is a first-level child (hierarchy [root, T, node]),
\* LEFT selects the first child of prev(T) and RIGHT the first child of
\* next(T), whenever that submenu has a first child; done is unchanged.
C5_FirstLevelCycle ==
  (key \in {"left", "right"} /\ Len(OldHierarchy) = 3 /\ ~is_submenu(old_selection)) =>
     LET target == IF key = "left" THEN prev(OldTop) ELSE next(OldTop)
     IN  /\ ~is_empty(target) => (selection = FirstChild(target) /\ ~raised)
         /\ is_done = old_done
         /\ invoked = 0

\* LEFT with three top-level submenus, where prev(T) and next(T) differ
C5_Witness ==
  /\ key = "left"
  /\ Len(OldHierarchy) = 3
  /\ ~is_submenu(old_selection)
  /\ prev(OldTop) # next(OldTop)
  /\ ~is_empty(prev(OldTop))
  /\ selection = FirstChild(prev(OldTop))

\* C6, as claimed: LEFT cycles the category bar whenever depth(selection) =
\* len(hierarchy) - 1 <= 3; from a hierarchy of 4 nodes LEFT selects the first
\* child of prev(hierarchy[1]).
C6_Original ==
  (WellFormed /\ key = "left" /\ Len(OldHierarchy) - 1 <= 3 /\ ~is_empty(prev(OldTop))) =>
     selection = FirstChild(prev(OldTop))

\* C6, amended: LEFT cycles the category bar whenever len(hierarchy) <= 3, that
\* is depth(selection) <= 2; from a node at depth 3 (hierarchy of 4 nodes) LEFT
\* selects the node's parent.
C6_LeftThreshold ==
  key = "left" =>
     /\ (Len(OldHierarchy) <= 3 /\ ~is_empty(prev(OldTop))) =>
           selection = FirstChild(prev(OldTop))
     /\ Len(OldHierarchy) = 4 => selection = get_parent(old_selection)
     /\ is_done = old_done

\* LEFT at depth 3 has climbed to the parent, which is not where cycling leads
C6_Witness ==
  /\ key = "left"
  /\ Len(OldHierarchy) = 4
  /\ ~is_empty(prev(OldTop))
  /\ selection = get_parent(old_selection)
  /\ selection # FirstChild(prev(OldTop))

\* C7: for a selection whose hierarchy has more than 3 nodes, LEFT selects
\* parent(selection), Submenu or Action alike, leaves done unchanged, and the
\* result is neither the root nor a top-level submenu.
C7_LeftClimbs ==
  (key = "left" /\ Len(OldHierarchy) > 3) =>
     /\ selection = get_parent(old_selection)
     /\ Len(get_hierarchy(selection)) = Len(OldHierarchy) - 1
     /\ Len(get_hierarchy(selection)) >= 3
     /\ is_done = old_done
     /\ invoked = 0
     /\ ~raised

\* LEFT from a hierarchy of 5 nodes
C7_Witness ==
  /\ key = "left"
  /\ Len(OldHierarchy) = 5
  /\ selection = get_parent(old_selection)

\* C8, as claimed: RIGHT on an Action at any depth selects the first child of
\* next(hierarchy[1]), never the Action's parent or a sibling.
C8_Original ==
  (WellFormed /\ key = "right" /\ ~is_submenu(old_selection) /\ ~is_empty(next(OldTop))) =>
     /\ selection = FirstChild(next(OldTop))
     /\ selection # get_parent(old_selection)
     /\ ~IsSiblingOf(selection, old_selection)

\* C8, amended: RIGHT on an Action at any depth selects the first child of
\* next(hierarchy[1]); that node is the Action's parent or a sibling only when
\* hierarchy[1] is the only top-level submenu.
C8_RightNeverClimbs ==
  (key = "right" /\ ~is_submenu(old_selection) /\ ~is_empty(next(OldTop))) =>
     /\ selection = FirstChild(next(OldTop))
     /\ (selection = get_parent(old_selection) \/ IsSiblingOf(selection, old_selection))
           => Len(get_children(1)) = 1
     /\ is_done = old_done
     /\ invoked = 0
     /\ ~raised

\* RIGHT from an Action below a nested submenu, with a second top-level submenu
C8_Witness ==
  /\ key = "right"
  /\ ~is_submenu(old_selection)
  /\ Len(OldHierarchy) >= 4
  /\ next(OldTop) # OldTop
  /\ ~is_empty(next(OldTop))
  /\ selection = FirstChild(next(OldTop))

\* C9: a key that is not SELECT, UP, DOWN, LEFT, RIGHT or CLOSE changes neither
\* the selection nor done, and invokes no effect.
C9_OtherKeyNoOp ==
  (/\ key # "none"
   /\ ~is_selection(key)
   /\ ~match(key, {"up", "down", "left", "right", "esc", "m"})) =>
     /\ selection = old_selection
     /\ is_done = old_done
     /\ invoked = 0
     /\ ~raised

\* an unrecognized key on a nested Action of an open menu
C9_Witness ==
  /\ key = "x"
  /\ ~is_submenu(old_selection)
  /\ Len(OldHierarchy) >= 4
  /\ ~is_done

\* C10: on a tree in which every submenu has a child, from the initial
\* selection, every handle_key call completes without raising and the
\* selection is a node of the tree.
C10_TotalOnWellFormed ==
  WellFormed =>
     /\ ~raised
     /\ selection \in Nodes

\* a well-formed tree with two top-level submenus, after cycling from a nested
\* selection
C10_Witness ==
  /\ WellFormed
  /\ key \in {"left", "right"}
  /\ Len(OldHierarchy) >= 4
  /\ OldTop # At(get_hierarchy(selection), 1)

\* C11, as claimed: on a tree in which some submenu has no children no key
\* makes handle_key fail, and every transition that would enter an empty
\* submenu (SELECT or RIGHT on it, LEFT or RIGHT cycling onto an empty
\* top-level submenu) leaves the selection unchanged.
C11_MalformedNoOp ==
  (~WellFormed /\ key # "none") =>
     /\ ~raised
     /\ (key \in {"enter", "right"} /\ is_submenu(old_selection)
           /\ is_empty(old_selection)) => selection = old_selection
     /\ (key = "left" /\ Len(OldHierarchy) <= 3 /\ is_empty(prev(OldTop)))
           => selection = old_selection
     /\ (key = "right" /\ ~is_submenu(old_selection) /\ is_empty(next(OldTop)))
           => selection = old_selection

\* C12, as claimed: once is_done() is true no handle_key call, with any key,
\* makes it false again.
C12_DoneIsTerminal ==
  (key # "none" /\ old_done) => is_done

\* the hierarchy of the selection the last render pass drew
ShownHierarchy == get_hierarchy(shown)

\* C13: every panel window a render pass acquires is released before the
\* driver blocks for the next key, on every path, so no panel window is held
\* at a key read; and once show_menu has left its `with` block, returned or
\* raised, no window (bar or panel) is held.
C13_WindowsScoped ==
  /\ pc \notin {"draw", "unwind"} => held = <<>>
  /\ pc \in {"finish", "returned", "raised"} => ~bar_held
  /\ pc \in {"draw", "unwind", "key", "after_key"} => bar_held

\* a key read after a pass in which the second panel failed to allocate while
\* the first was held
C13_Witness ==
  /\ pc = "key"
  /\ alloc_failed = 2
  /\ Len(panels) = 1
  /\ held = <<>>

\* C14: if acquiring the panel at level L fails, no panel at level L or deeper
\* is drawn in that pass, the panels above are drawn, the pass returns
\* normally, the cursor is as it was, and the next key is handled as
\* handle_key handles it on that selection.
C14_AllocFailureVisualOnly ==
  /\ (alloc_failed > 0 /\ pc \in {"unwind", "key"}) =>
        /\ Len(panels) = alloc_failed - 1
        /\ \A j \in 1..Len(panels) : panels[j].level = j
        /\ selection = shown
        /\ ~is_done
        /\ failure = "none"
  /\ (alloc_failed > 0 /\ pc \in {"after_key", "raised"}) =>
        LET out == handle_key(shown, FALSE, key, returned)
        IN  /\ selection = out.selection
            /\ is_done = out.is_done
            /\ raised = out.raised

\* a key was handled and moved the selection after a pass whose second panel
\* failed to allocate
C14_Witness ==
  /\ pc = "after_key"
  /\ alloc_failed = 2
  /\ Len(panels) = 1
  /\ selection # shown

RowLabels(panel) == [j \in 1..Len(panel.rows) |-> label[panel.rows[j].item]]

\* C16: for a non-empty child list with 3-part labels, each of the three column
\* widths is the maximum of that part's length over the children, the panel
\* width is their sum plus 2, and every formatted row is exactly as long as
\* the panel is wide; labels (a,bb,c), (aaa,b,cc) give widths (3,2,2).
C16_ColumnAlignment ==
  \A p \in 1..Len(panels) :
     LET panel == panels[p]
         labels == RowLabels(panel)
     IN  /\ Len(labels) > 0
         /\ \A c \in 1..3 :
               /\ \A j \in 1..Len(labels) : Len(labels[j][c]) <= panel.sizes[c]
               /\ \E j \in 1..Len(labels) : Len(labels[j][c]) = panel.sizes[c]
         /\ panel.width = panel.sizes[1] + panel.sizes[2] + panel.sizes[3] + 2
         /\ \A j \in 1..Len(panel.rows) : Len(panel.rows[j].text) = panel.width
         /\ labels = ExampleLabels => panel.sizes = <<3, 2, 2>>

\* the panel of the children labelled (a,bb,c) and (aaa,b,cc) has been drawn
C16_Witness ==
  /\ Len(panels) = 1
  /\ RowLabels(panels[1]) = ExampleLabels
  /\ panels[1].sizes = <<3, 2, 2>>
  /\ panels[1].rows[1].text = " a  bbc  "
  /\ panels[1].rows[2].text = " aaab cc "

\* the column at which the label of top-level item t starts in the menu bar:
\* every label before it takes its middle part, two spaces and a separator
RECURSIVE BarColumn(_, _)
BarColumn(items, t) ==
  IF Head(items) = t THEN 0
  ELSE Len(label[Head(items)][2]) + 3 + BarColumn(Tail(items), t)

\* C17: the level-1 panel is placed at row 1 and at the column where the
\* active top-level label starts in the bar; panel L+1 has top = top(L) +
\* index of the selected child within panel L and left = left(L) + width(L);
\* panel L's height is the number of children of hierarchy[L].
C17_PanelGeometry ==
  Len(panels) >= 1 =>
     /\ panels[1].top = 1
     /\ panels[1].left = BarColumn(get_children(1), At(ShownHierarchy, 1))
     /\ \A L \in 1..(Len(panels) - 1) :
           /\ panels[L + 1].top = panels[L].top
                + IndexOf(get_children(At(ShownHierarchy, L)), At(ShownHierarchy, L + 1))
           /\ panels[L + 1].left = panels[L].left + panels[L].width
     /\ \A L \in 1..Len(panels) :
           panels[L].height = Len(get_children(At(ShownHierarchy, L)))

\* two panels below the second top-level label
C17_Witness ==
  /\ Len(panels) = 2
  /\ panels[1].left > 0
  /\ panels[2].left > panels[1].left
  /\ pc = "key"

\* C18: in a render pass where every allocation succeeds exactly
\* len(hierarchy(selection)) - 2 panels are drawn; the panel at level L lists
\* the children of hierarchy[L] in sibling order, one row each, and exactly
\* one row, the one of hierarchy[L+1], is emphasized.
C18_OnePanelPerLevel ==
  (pc = "key" /\ alloc_failed = 0) =>
     /\ Len(panels) = Len(ShownHierarchy) - 2
     /\ \A L \in 1..Len(panels) :
           LET children == get_children(At(ShownHierarchy, L))
               rows == panels[L].rows
           IN  /\ panels[L].level = L
               /\ Len(rows) = Len(children)
               /\ \A j \in 1..Len(rows) :
                     /\ rows[j].item = children[j]
                     /\ rows[j].draw_top = j - 1
                     /\ rows[j].bold <=> children[j] = At(ShownHierarchy, L + 1)
               /\ Cardinality({j \in 1..Len(rows) : rows[j].bold}) = 1

\* a complete pass of two panels, the first with several rows
C18_Witness ==
  /\ pc = "key"
  /\ alloc_failed = 0
  /\ Len(panels) = 2
  /\ Len(panels[1].rows) >= 2

\* C19: every key read is preceded, in the same iteration, by a finished
\* render pass of the current selection path; one key is read and one
\* handle_key call made per iteration; once the cursor is done there is no
\* further render, key read or handle_key call.
C19_DriverOrdering ==
  /\ pc = "key" => /\ iter.rendered
                   /\ shown = selection
                   /\ held = <<>>
                   /\ iter.keys = 0
                   /\ iter.handled = 0
  /\ pc = "after_key" => /\ iter.rendered
                         /\ iter.keys = 1
                         /\ iter.handled = 1
  /\ pc = "loop" => /\ iter.keys = iter.handled
                    /\ iter.keys <= 1
  /\ is_done => pc \in {"after_key", "loop", "finish", "returned"}

\* the session has returned after an iteration whose key closed the menu
C19_Witness ==
  /\ pc = "returned"
  /\ is_done
  /\ iter.rendered
  /\ iter.keys = 1
  /\ iter.handled = 1

\* C20: when the menu bar's popup cannot be allocated show_menu reads no
\* key, invokes no Action and returns normally without raising an error.
C20_BarRefusedReturns ==
  (~control /\ pc \in {"returned", "raised"}) =>
     /\ key = "none"
     /\ invoked = 0
     /\ pc = "returned"
     /\ failure = "none"

\* the top-level items the menu bar would underline for the current selection
ActiveTopLevel ==
  LET selection_hierarchy == get_hierarchy(selection)
      entries == draw_bar(get_children(1), 0,
                          IF Len(selection_hierarchy) > 1
                          THEN At(selection_hierarchy, 1) ELSE 0)
  IN  {entries[j].item : j \in {i \in 1..Len(entries) : entries[i].underline}}

\* C21: on a well-formed tree, after any sequence of keys from the initial
\* selection, the selection's hierarchy has at least 3 nodes: the selection
\* is never the root nor a top-level submenu, hierarchy[1] is a child of the
\* root and the bar underlines exactly one top-level label.
C21_SelectionDepth ==
  WellFormed =>
     LET selection_hierarchy == get_hierarchy(selection)
     IN  /\ Len(selection_hierarchy) >= 3
         /\ selection # 1
         /\ get_parent(selection) # 1
         /\ get_parent(At(selection_hierarchy, 1)) = 1
         /\ ActiveTopLevel = {At(selection_hierarchy, 1)}

\* LEFT pressed on a first-level item: it cycled to another main submenu
\* and stayed below the top level
C21_Witness ==
  /\ WellFormed
  /\ key = "left"
  /\ Len(OldHierarchy) = 3
  /\ At(get_hierarchy(selection), 1) # OldTop
  /\ Len(get_hierarchy(selection)) = 3

\* the keys that move the cursor
NavKeys == {"enter", "up", "down", "left", "right"}

\* the selections one handle_key call with a moving key can lead to from sel
\* without invoking an action, raising, or setting done
QuietStep(sel) ==
  {out.selection :
     out \in {o \in {handle_key(sel, FALSE, k, r) : k \in NavKeys, r \in BOOLEAN} :
                o.invoked = 0 /\ ~o.raised /\ ~o.is_done}}

\* the selections finitely many such calls can lead to from those in S
RECURSIVE QuietlyReachable(_)
QuietlyReachable(S) ==
  LET T == S \cup UNION {QuietStep(sel) : sel \in S}
  IN  IF T = S THEN S ELSE QuietlyReachable(T)

\* C22: on a well-formed tree every node at depth >= 2 can be made the
\* selection by a finite sequence of SELECT/UP/DOWN/LEFT/RIGHT keys from the
\* initial selection, with no action invoked and done remaining false.
\* (The set depends on the tree alone, so it is computed once per tree, for
\* the cursor as constructed.)
C22_EveryItemReachable ==
  (WellFormed /\ key = "none") =>
     \A n \in Nodes :
        Len(get_hierarchy(n)) >= 3 => n \in QuietlyReachable({InitialSelection})

\* a nested item of a second main submenu is selected, and it is one of the
\* selections the moving keys lead to
C22_Witness ==
  /\ WellFormed
  /\ ~is_done
  /\ invoked = 0
  /\ Len(get_hierarchy(selection)) >= 4
  /\ At(get_hierarchy(selection), 1) # At(get_hierarchy(InitialSelection), 1)
  /\ selection \in QuietlyReachable({InitialSelection})
====
